---- MODULE Spec2Model ----
(***************************************************************************)
(* Model of AgentOrchestrator (src/orchestrator/agent_orchestrator.py):    *)
(* the lifecycle calls initialize() and cleanup(), and one process_query() *)
(* request walked through its await points.  Agent calls are inputs: each  *)
(* call settles with a successful mapping, an error mapping               *)
(* ({"error": reason}) or, for the agents whose process() does not catch   *)
(* its own faults, a raised exception.                                     *)
(* cleanup() is walked through the turns of the tasks that asyncio.gather   *)
(* creates for the six teardowns.                                          *)
(*                                                                         *)
(* Further specifications, each on its own variable: PairSpec (two         *)
(* process_query calls switched at their awaits), AgentSpec (process() of  *)
(* the agents in src/agents), VsSpec (VectorStoreAgent and its files),     *)
(* HttpSpec (orchestrator/orchestrator.py) and LauncherSpec (run.py).      *)
(*                                                                         *)
(* Python values: a dict is a function on its keys (EmptyDict is {}), a    *)
(* list is a sequence, an exception is its message text.  A call outcome   *)
(* is Ret(value) or Raise(message).                                        *)
(***************************************************************************)
EXTENDS Integers, Sequences, FiniteSets, TLC

VARIABLES
    agents_initialized, \* AgentOrchestrator.agents_initialized
    fresh,              \* no lifecycle or query call has been made yet
    pc,                 \* position of the coroutine in flight
    query_data,         \* argument of the process_query call in flight
    frame,              \* locals of process_query
    inner,              \* locals of the helper being executed
    calls,              \* agent calls of the request in flight, in order
    result,             \* what process_query hands to its caller
    last,               \* what the latest completed top-level call did
    tasks,              \* the teardown tasks of the cleanup() in flight
    parked,             \* a second process_query coroutine, not running now
    agent_io,           \* one process() call on an agent of src/agents
    store,              \* VectorStoreAgent: index, document_store, files
    http,               \* the HTTP orchestrator (orchestrator/orchestrator.py)
    launcher            \* run.py: main() and its two child processes

vars == <<agents_initialized, fresh, pc, query_data, frame, inner, calls,
          result, last, tasks, parked, agent_io, store, http, launcher>>

\* the variables of AgentOrchestrator and of its requests
orchestrator_vars ==
    <<agents_initialized, fresh, pc, query_data, frame, inner, calls,
      result, last, tasks, parked>>

\* what the AgentOrchestrator's lifecycle and single request leave alone
rest_of_system == <<parked, agent_io, store, http, launcher>>

----------------------------------------------------------------------------
(* Python values *)

EmptyDict == [k \in {} |-> k]

EmptyList == <<>>

NoVal == [none |-> TRUE]

Get(d, k, default) == IF k \in DOMAIN d THEN d[k] ELSE default

Ret(v) == [raised |-> FALSE, val |-> v]

Raise(m) == [raised |-> TRUE, val |-> [exc |-> m]]

----------------------------------------------------------------------------
(* The agents *)

Agents == {"market_data_agent", "web_scraper", "vector_store",
           "financial_analyzer", "language_processor", "voice_processor"}

\* MarketDataAgent and LanguageProcessor are imported by the orchestrator
\* but their modules are not part of the sources; their calls may raise.
\* The narrator's successful reply is either the mapping the orchestrator
\* reads (brief, confidence, sources; or brief alone) or the mapping the
\* specification gives for it (narrative, confidence, sources).
\* The other four agents wrap process() and initialize() in
\* try/except Exception and report a fault as a value.
ExternalAgents == {"market_data_agent", "language_processor"}

AgentCalls == {"stt", "quotes", "earnings", "news", "search", "sentiment",
               "risk", "earnings_analysis", "narrator", "tts"}

AgentOf(c) ==
    CASE c \in {"stt", "tts"} -> "voice_processor"
      [] c \in {"quotes", "earnings"} -> "market_data_agent"
      [] c = "news" -> "web_scraper"
      [] c = "search" -> "vector_store"
      [] c \in {"sentiment", "risk", "earnings_analysis"} -> "financial_analyzer"
      [] c = "narrator" -> "language_processor"

ErrMsg(c) == "failed: " \o c

PayloadOf(c, query) ==
    CASE c = "stt" -> [text |-> "transcript", confidence |-> 100, language |-> "en"]
      [] c = "quotes" -> [data |-> [AAPL |-> "quote"]]
      [] c = "earnings" -> [earnings |-> [AAPL |-> "eps"]]
      [] c = "news" -> [articles |-> <<"article">>, source |-> "url", timestamp |-> "ts"]
      [] c = "search" -> [results |-> <<"doc">>, query |-> query, total_results |-> 1]
      [] c = "sentiment" -> [sentiment |-> [overall |-> "neutral"], confidence |-> 85, timestamp |-> "ts"]
      [] c = "risk" -> [risk_metrics |-> [volatility |-> 15], risk_level |-> "low", timestamp |-> "ts"]
      [] c = "earnings_analysis" -> [earnings_analysis |-> [total_analyzed |-> 0], timestamp |-> "ts"]
      [] c = "narrator" -> [brief |-> "brief text", confidence |-> 85, sources |-> <<"TSM">>]
      [] c = "tts" -> [audio_data |-> <<"pcm">>, sample_rate |-> 22050, duration |-> 1]

IsEmpty(v) == DOMAIN v = {}

\* The narrator's reply as the specification's agent table gives it:
\* narrative, confidence, sources (confidence in hundredths).
narrator_generate_reply ==
    [narrative |-> "narrative text", confidence |-> 85, sources |-> <<"TSM">>]

\* What a call can do.  The four agents in the sources report a fault as an
\* error result and never raise.  VoiceProcessor._speech_to_text fails when
\* audio_data is None, _text_to_speech when the text is empty and
\* VectorStoreAgent._search_documents when the query is empty.
\* FinancialAnalyzer._analyze_market_sentiment has no failing path;
\* _analyze_portfolio_risk can only fail on a position of a non-empty
\* portfolio; _analyze_earnings iterates earnings_data expecting mappings,
\* so it succeeds on an empty one and fails on the symbol-keyed mapping the
\* orchestrator passes.
Outcomes(c, payload) ==
    CASE AgentOf(c) \in ExternalAgents ->
            IF c = "narrator"
            THEN {"ok", "ok_bare", "ok_narrative", "err", "raise"}
                              ELSE {"ok", "err", "raise"}
      [] c = "stt" -> IF payload.audio_data = NoVal THEN {"err"} ELSE {"ok", "err"}
      [] c = "tts" -> IF payload.text = "" THEN {"err"} ELSE {"ok", "err"}
      [] c = "news" -> {"ok", "err"}
      [] c = "search" -> IF payload.query = "" THEN {"err"} ELSE {"ok", "err"}
      [] c = "sentiment" -> {"ok"}
      [] c = "risk" -> IF IsEmpty(payload.portfolio) THEN {"ok"} ELSE {"ok", "err"}
      [] c = "earnings_analysis" ->
            IF IsEmpty(payload.earnings_data) THEN {"ok"} ELSE {"err"}

AgentReply(c, k, query) ==
    CASE k = "ok" -> Ret(PayloadOf(c, query))
      [] k = "ok_bare" -> Ret([brief |-> "brief text"])
      [] k = "ok_narrative" -> Ret(narrator_generate_reply)
      [] k = "err" -> Ret([error |-> ErrMsg(c)])
      [] k = "raise" -> Raise(ErrMsg(c))

\* the call started but not awaited: the coroutine goes on before it settles
Log_unawaited(c, payload, reply) ==
    <<[ev |-> "issue", call |-> c, payload |-> payload]>>

\* The record of one awaited call: issued with its payload, settled with
\* the agent's reply.
Log(c, payload, reply) ==
    <<[ev |-> "issue", call |-> c, payload |-> payload],
      [ev |-> "settle", call |-> c, reply |-> reply]>>

----------------------------------------------------------------------------
(* Lifecycle: __init__, initialize, cleanup *)

\* the locals and position of a process_query coroutine that has not been
\* called yet
NotStarted ==
    [pc |-> "idle", query_data |-> NoVal, frame |-> EmptyDict,
     inner |-> EmptyDict, calls |-> <<>>, result |-> NoVal]

Bind(f, k, v) == [x \in DOMAIN f \cup {k} |-> IF x = k THEN v ELSE f[x]]

\* AgentOrchestrator.__init__ (lines 17-28)
Constructed ==
    /\ agents_initialized = FALSE
    /\ fresh = TRUE
    /\ pc = "idle"
    /\ query_data = NoVal
    /\ frame = EmptyDict
    /\ inner = EmptyDict
    /\ calls = <<>>
    /\ result = NoVal
    /\ last = [op |-> "__init__"]
    /\ tasks = EmptyDict
    /\ parked = NotStarted

\* the parts of the repository that a specification does not exercise
Unused(v) == v = NoVal

Init ==
    /\ Constructed
    /\ Unused(agent_io) /\ Unused(store) /\ Unused(http) /\ Unused(launcher)

\* What one agent's initialize() can do: return True, return False, raise.
InitOutcomes(a) ==
    IF a \in ExternalAgents THEN {"true", "false", "raise"}
    ELSE IF a = "financial_analyzer" THEN {"true"}
    ELSE {"true", "false"}

\* asyncio.gather without return_exceptions: the list of results, or the
\* exception of a task that raised.
gather(outs) ==
    IF \E a \in DOMAIN outs : outs[a] = "raise"
    THEN Raise("failed: " \o (CHOOSE a \in DOMAIN outs : outs[a] = "raise"))
    ELSE Ret([a \in DOMAIN outs |-> outs[a] = "true"])

\* any() in place of all()
any(results) == \E a \in DOMAIN results : results[a]

all(results) == \A a \in DOMAIN results : results[a]

\* initialize(): the new flag and the value returned.
initialize_body(flag, outs) ==
    LET init_results == gather(outs) IN
    IF init_results.raised
    THEN [flag |-> flag, ret |-> Ret(FALSE)]
    ELSE [flag |-> all(init_results.val), ret |-> Ret(all(init_results.val))]

initialize ==
    /\ pc = "idle"
    /\ \E outs \in [Agents -> {"true", "false", "raise"}] :
        /\ \A a \in Agents : outs[a] \in InitOutcomes(a)
        /\ LET r == initialize_body(agents_initialized, outs) IN
            /\ agents_initialized' = r.flag
            /\ last' = [op |-> "initialize", outs |-> outs, ret |-> r.ret,
                        fresh |-> fresh, pre |-> agents_initialized]
    /\ fresh' = FALSE
    /\ UNCHANGED <<pc, query_data, frame, inner, calls, result>>
    /\ UNCHANGED tasks
    /\ UNCHANGED rest_of_system

\* What one agent's cleanup() can do: return, or raise.  VoiceProcessor and
\* VectorStoreAgent catch their faults, FinancialAnalyzer does nothing,
\* WebScraper awaits session.close() unguarded.
CleanupOutcomes(a) ==
    IF a \in ExternalAgents \cup {"web_scraper"} THEN {"true", "raise"}
    ELSE {"true"}

\* Whether an agent's cleanup() can give the event loop back before it
\* settles.  WebScraper awaits the closing of its HTTP session; the three
\* other agents in the sources run to their end without a suspending await.
CleanupSuspends(a) == a \in ExternalAgents \cup {"web_scraper"}

\* the arguments of asyncio.gather, in order
CleanupOrder ==
    <<"market_data_agent", "web_scraper", "vector_store",
      "financial_analyzer", "language_processor", "voice_processor">>

\* the except clause letting the exception through
cleanup_body_reraise(outs) ==
    LET r == gather(outs) IN
    IF r.raised THEN r ELSE Ret(NoVal)

cleanup_body(outs) ==
    LET r == gather(outs) IN
    IF r.raised THEN Ret(NoVal) ELSE Ret(NoVal)

\* cleanup() is called: gather wraps the six coroutines in tasks, schedules
\* them and cleanup() waits.
cleanup ==
    /\ pc = "idle"
    /\ pc' = "cleanup"
    /\ tasks' = [a \in Agents |-> "scheduled"]
    /\ last' = [op |-> "cleanup"]
    /\ fresh' = FALSE
    /\ UNCHANGED <<agents_initialized, query_data, frame, inner, calls,
                   result>>
    /\ UNCHANGED rest_of_system

\* The event loop runs the scheduled tasks in the order they were created:
\* each runs until it returns, raises or reaches a suspending await.
cleanup_task_start ==
    /\ pc = "cleanup"
    /\ \E i \in DOMAIN CleanupOrder :
        LET a == CleanupOrder[i] IN
        /\ tasks[a] = "scheduled"
        /\ \A j \in 1..(i - 1) : tasks[CleanupOrder[j]] # "scheduled"
        /\ \E o \in CleanupOutcomes(a)
                    \cup (IF CleanupSuspends(a) THEN {"suspended"} ELSE {}) :
            tasks' = [tasks EXCEPT ![a] = o]
    /\ UNCHANGED <<agents_initialized, fresh, pc, query_data, frame, inner,
                   calls, result, last>>
    /\ UNCHANGED rest_of_system

\* a suspended teardown is resumed and settles
cleanup_task_resume ==
    /\ pc = "cleanup"
    /\ \E a \in Agents :
        /\ tasks[a] = "suspended"
        /\ \E o \in CleanupOutcomes(a) : tasks' = [tasks EXCEPT ![a] = o]
    /\ UNCHANGED <<agents_initialized, fresh, pc, query_data, frame, inner,
                   calls, result, last>>
    /\ UNCHANGED rest_of_system

\* whether the future of gather is done: every task has returned, or one
\* has raised
gather_done(ts) ==
    \/ \A a \in DOMAIN ts : ts[a] = "true"
    \/ \E a \in DOMAIN ts : ts[a] = "raise"

\* cleanup() is resumed with the result of gather and returns.  The callback
\* that wakes it runs after every task created by gather has had its first
\* turn.  Tasks still suspended stay with the event loop; nothing they do
\* later reaches the orchestrator.
cleanup_return ==
    /\ pc = "cleanup"
    /\ \A a \in Agents : tasks[a] # "scheduled"
    /\ gather_done(tasks)
    /\ last' = [op |-> "cleanup", outs |-> tasks, ret |-> cleanup_body(tasks)]
    /\ pc' = "idle"
    /\ tasks' = EmptyDict
    /\ UNCHANGED <<agents_initialized, fresh, query_data, frame, inner, calls,
                   result>>
    /\ UNCHANGED rest_of_system

----------------------------------------------------------------------------
(* process_query *)

Audio == [pcm |-> "silence"]

\* The requests: the test suite's text and voice requests, its request with
\* an invalid input_type, an empty query, a voice request without audio and
\* a request without any key.
QueryDatas ==
    {[query |-> q, input_type |-> "voice", response_type |-> rt,
      audio_data |-> a] :
        q \in {"", "q"}, rt \in {"text", "voice"}, a \in {Audio, NoVal}}
    \cup
    {[query |-> q, input_type |-> it, response_type |-> rt] :
        q \in {"", "q"}, it \in {"text", "invalid"}, rt \in {"text", "voice"}}
    \cup {EmptyDict}

\* the except clause letting the exception through
process_query_except_reraise(e) == Raise(e)

\* except Exception as e: return {"error": str(e)}
process_query_except(e) == Ret([error |-> e])

\* the readiness test left out
not_initialized_skipped(flag) == FALSE

not_initialized(flag) == ~flag

process_query ==
    /\ pc = "idle"
    /\ \E qd \in QueryDatas :
        /\ query_data' = qd
        /\ IF not_initialized(agents_initialized)
           THEN /\ result' = process_query_except("Agents not initialized")
                /\ pc' = "done"
                /\ frame' = EmptyDict
           ELSE /\ frame' = [query |-> Get(qd, "query", ""),
                             input_type |-> Get(qd, "input_type", "text"),
                             response_type |-> Get(qd, "response_type", "text")]
                /\ pc' = IF frame'.input_type = "voice" THEN "stt"
                                                          ELSE "gm_quotes"
                /\ result' = NoVal
    /\ inner' = EmptyDict
    /\ calls' = <<>>
    /\ fresh' = FALSE
    /\ last' = [op |-> "process_query"]
    /\ UNCHANGED agents_initialized
    /\ UNCHANGED tasks
    /\ UNCHANGED rest_of_system

\* A helper awaited by process_query has finished with outcome out: bind its
\* value to a local and go on, or leave through the except clause.
Continue(out, local, nextpc) ==
    IF out.raised
    THEN /\ result' = process_query_except(out.val.exc)
         /\ pc' = "done"
         /\ frame' = frame
    ELSE /\ frame' = Bind(frame, local, out.val)
         /\ pc' = nextpc
         /\ result' = result

\* the transcript dropped: query keeps the request's own text
stt_text_keep_query(stt_result) ==
    IF "error" \in DOMAIN stt_result
    THEN Raise("Speech-to-text error: " \o stt_result.error)
    ELSE Ret(frame.query)

\* a transcription error taken as an empty transcript
stt_text_lenient(stt_result) ==
    IF "text" \in DOMAIN stt_result THEN Ret(stt_result.text) ELSE Ret("")

\* lines 68-71
stt_text(stt_result) ==
    IF "error" \in DOMAIN stt_result
    THEN Raise("Speech-to-text error: " \o stt_result.error)
    ELSE IF "text" \notin DOMAIN stt_result
    THEN Raise("'text'")
    ELSE Ret(stt_result.text)

voice_stt ==
    /\ pc = "stt"
    /\ LET payload == [operation |-> "stt",
                       audio_data |-> Get(query_data, "audio_data", NoVal)] IN
       \E k \in Outcomes("stt", payload) :
         LET r == AgentReply("stt", k, frame.query) IN
         /\ calls' = calls \o Log("stt", payload, r)
         /\ Continue(IF r.raised THEN r ELSE stt_text(r.val),
                     "query", "gm_quotes")
    /\ UNCHANGED <<agents_initialized, fresh, query_data, inner, last>>
    /\ UNCHANGED tasks
    /\ UNCHANGED rest_of_system

----------------------------------------------------------------------------
(* _gather_market_data *)

symbols == <<"AAPL", "TSMC", "SAMSUNG">>

\* lines 123-126
_gather_market_data_return(market_data, earnings_data) ==
    Ret([market_data |-> Get(market_data, "data", EmptyDict),
         earnings_data |-> Get(earnings_data, "earnings", EmptyDict)])

\* the except clause letting the exception through
_gather_market_data_except_reraise(e) == Raise(e)

\* lines 128-130
_gather_market_data_except(e) == Ret(EmptyDict)

gm_quotes ==
    /\ pc = "gm_quotes"
    /\ LET payload == [query_type |-> "stock_data", symbols |-> symbols] IN
       \E k \in Outcomes("quotes", payload) :
         LET r == AgentReply("quotes", k, frame.query) IN
         /\ calls' = calls \o Log("quotes", payload, r)
         /\ IF r.raised
            THEN /\ Continue(_gather_market_data_except(r.val.exc),
                             "market_data", "gc_news")
                 /\ inner' = EmptyDict
            ELSE /\ inner' = [market_data |-> r.val]
                 /\ pc' = "gm_earnings"
                 /\ UNCHANGED <<frame, result>>
    /\ UNCHANGED <<agents_initialized, fresh, query_data, last>>
    /\ UNCHANGED tasks
    /\ UNCHANGED rest_of_system

gm_earnings ==
    /\ pc = "gm_earnings"
    /\ LET payload == [query_type |-> "earnings", symbols |-> symbols] IN
       \E k \in Outcomes("earnings", payload) :
         LET r == AgentReply("earnings", k, frame.query) IN
         /\ calls' = calls \o Log("earnings", payload, r)
         /\ Continue(IF r.raised
                     THEN _gather_market_data_except(r.val.exc)
                     ELSE _gather_market_data_return(inner.market_data, r.val),
                     "market_data", "gc_news")
    /\ inner' = EmptyDict
    /\ UNCHANGED <<agents_initialized, fresh, query_data, last>>
    /\ UNCHANGED tasks
    /\ UNCHANGED rest_of_system

----------------------------------------------------------------------------
(* _gather_context *)

\* lines 148-151
_gather_context_return(news_data, vector_results) ==
    Ret([news |-> Get(news_data, "articles", EmptyList),
         relevant_docs |-> Get(vector_results, "results", EmptyList)])

\* lines 153-155
_gather_context_except(e) == Ret(EmptyDict)

gc_news ==
    /\ pc = "gc_news"
    /\ LET payload == [scrape_type |-> "market_news", limit |-> 5] IN
       \E k \in Outcomes("news", payload) :
         LET r == AgentReply("news", k, frame.query) IN
         /\ calls' = calls \o Log("news", payload, r)
         /\ IF r.raised
            THEN /\ Continue(_gather_context_except(r.val.exc),
                             "context_data", "an_sentiment")
                 /\ inner' = EmptyDict
            ELSE /\ inner' = [news_data |-> r.val]
                 /\ pc' = "gc_search"
                 /\ UNCHANGED <<frame, result>>
    /\ UNCHANGED <<agents_initialized, fresh, query_data, last>>
    /\ UNCHANGED tasks
    /\ UNCHANGED rest_of_system

gc_search ==
    /\ pc = "gc_search"
    /\ LET payload == [operation |-> "search", query |-> frame.query, k |-> 3] IN
       \E o \in Outcomes("search", payload) :
         LET r == AgentReply("search", o, frame.query) IN
         /\ calls' = calls \o Log("search", payload, r)
         /\ Continue(IF r.raised
                     THEN _gather_context_except(r.val.exc)
                     ELSE _gather_context_return(inner.news_data, r.val),
                     "context_data", "an_sentiment")
    /\ inner' = EmptyDict
    /\ UNCHANGED <<agents_initialized, fresh, query_data, last>>
    /\ UNCHANGED tasks
    /\ UNCHANGED rest_of_system

----------------------------------------------------------------------------
(* _analyze_data *)

\* one failed analysis discarding the whole stage result
_analyze_data_return_drop_failed(sentiment, risk, earnings) ==
    IF \E r \in {sentiment, risk, earnings} : "error" \in DOMAIN r
    THEN Ret(EmptyDict)
    ELSE Ret([sentiment |-> sentiment, risk |-> risk, earnings |-> earnings])

\* lines 181-185
_analyze_data_return(sentiment, risk, earnings) ==
    Ret([sentiment |-> sentiment, risk |-> risk, earnings |-> earnings])

\* lines 187-189
_analyze_data_except(e) == Ret(EmptyDict)

an_sentiment ==
    /\ pc = "an_sentiment"
    /\ LET payload ==
             [analysis_type |-> "market_sentiment",
              market_data |-> Get(frame.market_data, "market_data", EmptyDict),
              news_data |-> Get(frame.context_data, "news", EmptyList)] IN
       \E k \in Outcomes("sentiment", payload) :
         LET r == AgentReply("sentiment", k, frame.query) IN
         /\ calls' = calls \o Log("sentiment", payload, r)
         /\ IF r.raised
            THEN /\ Continue(_analyze_data_except(r.val.exc),
                             "analysis_result", "narrate")
                 /\ inner' = EmptyDict
            ELSE /\ inner' = [sentiment |-> r.val]
                 /\ pc' = "an_risk"
                 /\ UNCHANGED <<frame, result>>
    /\ UNCHANGED <<agents_initialized, fresh, query_data, last>>
    /\ UNCHANGED tasks
    /\ UNCHANGED rest_of_system

an_risk ==
    /\ pc = "an_risk"
    /\ LET payload ==
             [analysis_type |-> "portfolio_risk",
              portfolio |-> Get(frame.market_data, "market_data", EmptyDict),
              market_data |-> frame.market_data] IN
       \E k \in Outcomes("risk", payload) :
         LET r == AgentReply("risk", k, frame.query) IN
         /\ calls' = calls \o Log("risk", payload, r)
         /\ IF r.raised
            THEN /\ Continue(_analyze_data_except(r.val.exc),
                             "analysis_result", "narrate")
                 /\ inner' = EmptyDict
            ELSE /\ inner' = Bind(inner, "risk", r.val)
                 /\ pc' = "an_earnings"
                 /\ UNCHANGED <<frame, result>>
    /\ UNCHANGED <<agents_initialized, fresh, query_data, last>>
    /\ UNCHANGED tasks
    /\ UNCHANGED rest_of_system

an_earnings ==
    /\ pc = "an_earnings"
    /\ LET payload ==
             [analysis_type |-> "earnings_analysis",
              earnings_data |-> Get(frame.market_data, "earnings_data", EmptyList),
              market_expectations |-> EmptyDict] IN
       \E k \in Outcomes("earnings_analysis", payload) :
         LET r == AgentReply("earnings_analysis", k, frame.query) IN
         /\ calls' = calls \o Log("earnings_analysis", payload, r)
         /\ Continue(IF r.raised
                     THEN _analyze_data_except(r.val.exc)
                     ELSE _analyze_data_return(inner.sentiment, inner.risk, r.val),
                     "analysis_result", "narrate")
    /\ inner' = EmptyDict
    /\ UNCHANGED <<agents_initialized, fresh, query_data, last>>
    /\ UNCHANGED tasks
    /\ UNCHANGED rest_of_system

----------------------------------------------------------------------------
(* _generate_response *)

Apology == "I apologize, but I encountered an error while generating the response."

\* datetime.now().isoformat()
Now == "ts"

\* lines 211-216
_generate_response_return(response) ==
    Ret([content |-> Get(response, "brief", "Unable to generate response"),
         confidence |-> Get(response, "confidence", 0),
         sources |-> Get(response, "sources", EmptyList),
         timestamp |-> Now])

\* the except clause letting the exception through
_generate_response_except_reraise(e) == Raise(e)

\* lines 218-223
_generate_response_except(e) == Ret([content |-> Apology, error |-> e])

\* line 98: return response
Return(out) ==
    /\ frame' = Bind(frame, "response", out.val)
    /\ result' = out
    /\ pc' = "done"

narrate ==
    /\ pc = "narrate"
    /\ LET payload ==
             [task_type |-> "market_brief",
              market_data |-> frame.market_data,
              context |-> [query |-> frame.query,
                           news |-> Get(frame.context_data, "news", EmptyList),
                           analysis |-> frame.analysis_result]] IN
       \E k \in Outcomes("narrator", payload) :
         LET r == AgentReply("narrator", k, frame.query)
             out == IF r.raised THEN _generate_response_except(r.val.exc)
                                ELSE _generate_response_return(r.val)
         IN  /\ calls' = calls \o Log("narrator", payload, r)
             /\ IF out.raised \/ frame.response_type = "voice"
                THEN Continue(out, "response", "tts")
                ELSE Return(out)
    /\ UNCHANGED <<agents_initialized, fresh, query_data, inner, last>>
    /\ UNCHANGED tasks
    /\ UNCHANGED rest_of_system

----------------------------------------------------------------------------
(* a call that is never answered *)

\* The positions of process_query at which it awaits MarketDataAgent or
\* LanguageProcessor, and the call awaited there.
AwaitedExternal ==
    [gm_quotes |-> "quotes", gm_earnings |-> "earnings", narrate |-> "narrator"]

\* the payload of the call awaited at position p
AwaitedPayload(p) ==
    CASE p = "gm_quotes" -> [query_type |-> "stock_data", symbols |-> symbols]
      [] p = "gm_earnings" -> [query_type |-> "earnings", symbols |-> symbols]
      [] p = "narrate" ->
            [task_type |-> "market_brief",
             market_data |-> frame.market_data,
             context |-> [query |-> frame.query,
                          news |-> Get(frame.context_data, "news", EmptyList),
                          analysis |-> frame.analysis_result]]

\* await agent.process(...) on an agent that never answers: the await has
\* no timeout (no asyncio.wait_for around it), so the coroutine stays
\* suspended at it.
call_never_responds ==
    /\ pc \in DOMAIN AwaitedExternal
    /\ calls' = calls \o <<[ev |-> "issue", call |-> AwaitedExternal[pc],
                            payload |-> AwaitedPayload(pc)]>>
    /\ pc' = "awaiting"
    /\ UNCHANGED <<agents_initialized, fresh, query_data, frame, inner,
                   result, last, tasks>>
    /\ UNCHANGED rest_of_system

----------------------------------------------------------------------------
(* voice output and return *)

\* the audio attached without its sample rate
attach_voice_no_rate(response, voice_result) ==
    IF "error" \in DOMAIN voice_result
    THEN Raise("Text-to-speech error: " \o voice_result.error)
    ELSE Ret(Bind(response, "audio_data", voice_result.audio_data))

\* a synthesis error ignored: the text response is returned as it is
attach_voice_lenient(response, voice_result) ==
    IF "audio_data" \in DOMAIN voice_result /\ "sample_rate" \in DOMAIN voice_result
    THEN Ret(Bind(Bind(response, "audio_data", voice_result.audio_data),
                  "sample_rate", voice_result.sample_rate))
    ELSE Ret(response)

\* lines 92-96
attach_voice(response, voice_result) ==
    IF "error" \in DOMAIN voice_result
    THEN Raise("Text-to-speech error: " \o voice_result.error)
    ELSE IF "audio_data" \notin DOMAIN voice_result
    THEN Raise("'audio_data'")
    ELSE IF "sample_rate" \notin DOMAIN voice_result
    THEN Raise("'sample_rate'")
    ELSE Ret(Bind(Bind(response, "audio_data", voice_result.audio_data),
                  "sample_rate", voice_result.sample_rate))

voice_tts ==
    /\ pc = "tts"
    /\ LET payload == [operation |-> "tts", text |-> frame.response.content] IN
       \E k \in Outcomes("tts", payload) :
         LET r == AgentReply("tts", k, frame.query)
             out == IF r.raised THEN r ELSE attach_voice(frame.response, r.val)
         IN  /\ calls' = calls \o Log("tts", payload, r)
             /\ IF out.raised
                THEN Continue(out, "response", "done")
                ELSE Return(out)
    /\ UNCHANGED <<agents_initialized, fresh, query_data, inner, last>>
    /\ UNCHANGED tasks
    /\ UNCHANGED rest_of_system

\* the readiness flag withdrawn when the request ends in an error
readiness_on_return_reset(flag, ret) == flag /\ "error" \notin DOMAIN ret.val

\* self.agents_initialized when process_query returns ret: no statement of
\* lines 50-102, nor of the helpers, assigns it
readiness_on_return(flag, ret) == flag

\* the caller receives the result
process_query_return ==
    /\ pc = "done"
    /\ pc' = "idle"
    /\ last' = [op |-> "process_query", ret |-> result]
    /\ query_data' = NoVal
    /\ frame' = EmptyDict
    /\ inner' = EmptyDict
    /\ calls' = <<>>
    /\ result' = NoVal
    /\ agents_initialized' = readiness_on_return(agents_initialized, result)
    /\ UNCHANGED <<fresh, tasks>>
    /\ UNCHANGED rest_of_system

----------------------------------------------------------------------------

Next ==
    \/ initialize
    \/ cleanup
    \/ cleanup_task_start
    \/ cleanup_task_resume
    \/ cleanup_return
    \/ process_query
    \/ voice_stt
    \/ gm_quotes
    \/ gm_earnings
    \/ gc_news
    \/ gc_search
    \/ an_sentiment
    \/ an_risk
    \/ an_earnings
    \/ narrate
    \/ voice_tts
    \/ call_never_responds
    \/ process_query_return

Spec == Init /\ [][Next]_vars

\* the event loop runs every coroutine that is ready to run
FairSpec == Spec /\ WF_vars(Next)

----------------------------------------------------------------------------
(* Two process_query calls on one orchestrator *)

\* response_type kept on the orchestrator object: the resumed request finds
\* the value written by the request that ran last
resumed_locals_shared(own, running) ==
    IF own.frame # EmptyDict /\ running.frame # EmptyDict
    THEN [own EXCEPT !.frame.response_type = running.frame.response_type]
    ELSE own

\* What a coroutine finds when the event loop resumes it: query,
\* input_type, response_type, market_data, context_data, analysis_result
\* and response are locals of process_query (lines 60-96) and of its
\* helpers, none is an attribute of the orchestrator.
resumed_locals(own, running) == own

\* At an await the event loop suspends the running process_query and
\* resumes, or starts, the other one.
switch ==
    /\ pc \notin {"cleanup", "awaiting"}
    /\ LET running == [pc |-> pc, query_data |-> query_data, frame |-> frame,
                       inner |-> inner, calls |-> calls, result |-> result]
           resumed == resumed_locals(parked, running)
       IN  /\ parked' = running
           /\ pc' = resumed.pc
           /\ query_data' = resumed.query_data
           /\ frame' = resumed.frame
           /\ inner' = resumed.inner
           /\ calls' = resumed.calls
           /\ result' = resumed.result
    /\ UNCHANGED <<agents_initialized, fresh, last, tasks>>
    /\ UNCHANGED <<agent_io, store, http, launcher>>

\* the number of calls in a call record that failed
Failures(log) ==
    Cardinality({i \in DOMAIN log :
                    /\ log[i].ev = "settle"
                    /\ \/ log[i].reply.raised
                       \/ "error" \in DOMAIN log[i].reply.val})

MaxFailures == 3

\* a text request answered by voice and a voice request answered by text
PairQueryDatas ==
    {[query |-> "q", input_type |-> "text", response_type |-> "voice"],
     [query |-> "", input_type |-> "voice", response_type |-> "text",
      audio_data |-> Audio]}

\* the two requests explored together
PairBound ==
    /\ query_data \in PairQueryDatas \cup {NoVal}
    /\ parked.query_data \in PairQueryDatas \cup {NoVal}
    /\ Failures(calls) + Failures(parked.calls) <= MaxFailures

\* an orchestrator whose initialize() has returned True
PairInit ==
    /\ agents_initialized = TRUE
    /\ fresh = FALSE
    /\ pc = "idle"
    /\ query_data = NoVal
    /\ frame = EmptyDict
    /\ inner = EmptyDict
    /\ calls = <<>>
    /\ result = NoVal
    /\ last = [op |-> "initialize", outs |-> [a \in Agents |-> "true"],
               ret |-> Ret(TRUE), fresh |-> TRUE, pre |-> FALSE]
    /\ tasks = EmptyDict
    /\ parked = NotStarted
    /\ Unused(agent_io) /\ Unused(store) /\ Unused(http) /\ Unused(launcher)

PairNext ==
    \/ process_query /\ PairBound'
    \/ voice_stt /\ PairBound'
    \/ gm_quotes /\ PairBound'
    \/ gm_earnings /\ PairBound'
    \/ gc_news /\ PairBound'
    \/ gc_search /\ PairBound'
    \/ an_sentiment /\ PairBound'
    \/ an_risk /\ PairBound'
    \/ an_earnings /\ PairBound'
    \/ narrate /\ PairBound'
    \/ voice_tts /\ PairBound'
    \/ process_query_return
    \/ switch

PairSpec == PairInit /\ [][PairNext]_vars

----------------------------------------------------------------------------
(* process() of the four agents in src/agents *)

InProcessAgents == Agents \ ExternalAgents

\* the key of input_data that selects the operation
SelectorKey(a) ==
    CASE a = "voice_processor" -> "operation"
      [] a = "web_scraper" -> "scrape_type"
      [] a = "vector_store" -> "operation"
      [] a = "financial_analyzer" -> "analysis_type"

\* the values of that key with a branch in process()
Supported(a) ==
    CASE a = "voice_processor" -> {"stt", "tts"}
      [] a = "web_scraper" -> {"earnings", "market_news", "custom"}
      [] a = "vector_store" -> {"index", "search", "update"}
      [] a = "financial_analyzer" ->
            {"portfolio_risk", "market_sentiment", "earnings_analysis"}

\* What is passed to process(): a mapping, or a value without .get (None).
\* A mapping carries the selector key or lacks it.
ProcessInputs(a) ==
    {[is_mapping |-> FALSE, data |-> EmptyDict],
     [is_mapping |-> TRUE, data |-> EmptyDict]}
    \cup {[is_mapping |-> TRUE, data |-> [selector |-> v]] :
            v \in Supported(a) \cup {"bogus"}}

\* What happens inside the selected helper: nothing, a ValueError raised by
\* the helper on its arguments (no audio, no text, no query, no documents),
\* or an exception of a library or of the network.
HelperFaults == {"none", "invalid_argument", "internal"}

\* except Exception as e: return {"error": str(e)}, of the helpers
helper_except(e) == Ret([error |-> e])

\* _speech_to_text, _scrape_market_news, _search_documents, ...: the whole
\* body is inside try/except Exception
helper(a, op, fault) ==
    LET body == IF fault = "none" THEN Ret([done |-> op])
                ELSE Raise(fault \o ": " \o op)
    IN  IF body.raised THEN helper_except(body.val.exc) ELSE body

\* the except clause of process() letting the exception through
agent_process_except_reraise(e) == Raise(e)

\* except Exception as e: return {"error": str(e)}, of process()
agent_process_except(e) == Ret([error |-> e])

\* process(input_data) of VoiceProcessor, WebScraper, VectorStoreAgent and
\* FinancialAnalyzer
agent_process(a, input_data, fault) ==
    LET body ==
          IF ~input_data.is_mapping
          THEN Raise("'NoneType' object has no attribute 'get'")
          ELSE LET op == Get(input_data.data, "selector", "None") IN
               IF op \in Supported(a)
               THEN helper(a, op, fault)
               ELSE Raise("Unsupported " \o SelectorKey(a) \o ": " \o op)
    IN  IF body.raised THEN agent_process_except(body.val.exc) ELSE body

AgentInit ==
    /\ Constructed
    /\ agent_io \in {[agent |-> a, input_data |-> i, fault |-> f, out |-> NoVal] :
                        a \in InProcessAgents,
                        i \in UNION {ProcessInputs(b) : b \in InProcessAgents},
                        f \in HelperFaults}
    /\ agent_io.input_data \in ProcessInputs(agent_io.agent)
    /\ Unused(store) /\ Unused(http) /\ Unused(launcher)

call_process ==
    /\ agent_io.out = NoVal
    /\ agent_io' = [agent_io EXCEPT
                      !.out = agent_process(agent_io.agent, agent_io.input_data,
                                            agent_io.fault)]
    /\ UNCHANGED <<orchestrator_vars, store, http, launcher>>

AgentNext == call_process

AgentSpec == AgentInit /\ [][AgentNext]_vars

----------------------------------------------------------------------------
(* VectorStoreAgent (src/agents/retriever_agent/vector_store.py) *)

\* Keys of document_store.  Python keeps the int 0 and the str "0" apart.
IntKey(i) == [type |-> "int", v |-> i]

StrKey(i) == [type |-> "str", v |-> i]

MaxDocs == 3

Texts == {"a", "b"}

Queries == {"", "a", "c"}

Ks == {1, 2, 3}

\* the document lists passed to the index operation
DocumentLists ==
    {<<>>} \cup {<<[text |-> t]>> : t \in Texts}
    \cup {<<[text |-> "a"], [text |-> "b", metadata |-> [src |-> "x"]]>>}

NoFiles == [files |-> FALSE]

\* __init__ (lines 14-20), before initialize(); disk is what the
\* store_path directory holds
NewAgent(disk) ==
    [index |-> <<>>, document_store |-> EmptyDict, disk |-> disk,
     reloaded |-> FALSE, before |-> NoVal, req |-> NoVal, out |-> NoVal]

\* json.dump(self.document_store, f) followed by json.load(f): every key
\* of a JSON object is a string, an int key i is written as "i"; of two
\* keys written alike the later one is kept
json_round_trip(ds) ==
    [k \in {StrKey(j.v) : j \in DOMAIN ds} |->
        IF IntKey(k.v) \in DOMAIN ds THEN ds[IntKey(k.v)] ELSE ds[k]]

\* _save_store (lines 163-178) when the files are written
_save_store(st) ==
    [st EXCEPT !.disk = [files |-> TRUE, index |-> st.index,
                         documents |-> st.document_store]]

\* _load_store (lines 180-197)
_load_store(st) ==
    IF st.disk.files
    THEN [st EXCEPT !.index = st.disk.index,
                    !.document_store = json_round_trip(st.disk.documents),
                    !.reloaded = TRUE]
    ELSE st

\* lines 67-81: one document added to the index and to document_store
index_one(st, doc) ==
    LET text == Get(doc, "text", "")
        doc_id == IntKey(Cardinality(DOMAIN st.document_store))
    IN  [st EXCEPT !.index = Append(st.index, text),
                   !.document_store =
                       Bind(st.document_store, doc_id,
                            [text |-> text,
                             metadata |-> Get(doc, "metadata", EmptyDict),
                             timestamp |-> Now])]

RECURSIVE index_all(_, _)
index_all(st, documents) ==
    IF documents = <<>> THEN st
    ELSE index_all(index_one(st, Head(documents)), Tail(documents))

\* _index_documents (lines 59-93): the agent after the call and the reply
_index_documents(st, documents, saved) ==
    IF documents = <<>>
    THEN [st |-> st, out |-> [error |-> "No documents provided for indexing"]]
    ELSE LET added == index_all(st, documents) IN
         IF saved
         THEN [st |-> _save_store(added),
               out |-> [indexed_count |-> Len(documents),
                        total_documents |-> Cardinality(DOMAIN added.document_store)]]
         ELSE [st |-> added, out |-> [error |-> "save failed"]]

\* the squared distance of a stored vector to the query vector: equal texts
\* have equal embeddings
Distance(query, text) == IF query = text THEN 0 ELSE 1

\* the ids in S in increasing order
Ascending(S) ==
    CHOOSE q \in [1..Cardinality(S) -> S] :
        \A i, j \in 1..Cardinality(S) : i < j => q[i] < q[j]

\* faiss IndexFlatL2.search(query, k): the ids of the k nearest vectors,
\* nearest first, -1 in the slots for which the index has no vector
faiss_search(index, query, k) ==
    LET ids == {i - 1 : i \in DOMAIN index}
        near == Ascending({i \in ids : Distance(query, index[i + 1]) = 0})
        far == Ascending({i \in ids : Distance(query, index[i + 1]) = 1})
        ranked == near \o far
    IN  [n \in 1..k |->
            IF n <= Len(ranked)
            THEN [idx |-> ranked[n], distance |-> Distance(query, index[ranked[n] + 1])]
            ELSE [idx |-> -1, distance |-> 0]]

\* line 113: if idx < len(self.document_store)
is_valid_slot(idx, size) == idx < size

\* 1 / (1 + distance), in hundredths
Score(distance) == 100 \div (1 + distance)

\* _search_documents (lines 95-132): the reply
_search_documents(st, query, k) ==
    IF query = ""
    THEN [error |-> "No query provided"]
    ELSE LET found == faiss_search(st.index, query, k)
             size == Cardinality(DOMAIN st.document_store)
             taken == {n \in 1..k : is_valid_slot(found[n].idx, size)}
             missing == {n \in taken : IntKey(found[n].idx) \notin DOMAIN st.document_store}
         IN  IF missing # {}
             THEN LET n == CHOOSE m \in missing : \A o \in missing : m <= o
                  IN  [error |-> ToString(found[n].idx)]
             ELSE LET slots == IF taken = {} THEN <<>> ELSE Ascending(taken)
                      results ==
                        [n \in 1..Len(slots) |->
                            LET hit == found[slots[n]]
                                doc == st.document_store[IntKey(hit.idx)]
                            IN  [text |-> doc.text, metadata |-> doc.metadata,
                                 score |-> Score(hit.distance),
                                 timestamp |-> doc.timestamp]]
                  IN  [results |-> results, query |-> query,
                       total_results |-> Len(results)]

\* a VectorStoreAgent constructed and initialized in an empty directory
VsInit ==
    /\ Constructed
    /\ store = NewAgent(NoFiles)
    /\ Unused(agent_io) /\ Unused(http) /\ Unused(launcher)

\* process({"operation": "index", "documents": documents})
vs_index ==
    /\ \E documents \in DocumentLists, saved \in BOOLEAN :
        /\ Len(store.index) + Len(documents) <= MaxDocs
        /\ LET r == _index_documents(store, documents, saved) IN
           store' = [r.st EXCEPT !.req = [operation |-> "index"],
                                 !.out = r.out]
    /\ UNCHANGED <<orchestrator_vars, agent_io, http, launcher>>

\* process({"operation": "search", "query": query, "k": k})
vs_search ==
    /\ \E query \in Queries, k \in Ks :
        store' = [store EXCEPT
                    !.req = [operation |-> "search", query |-> query, k |-> k],
                    !.out = _search_documents(store, query, k)]
    /\ UNCHANGED <<orchestrator_vars, agent_io, http, launcher>>

\* The process ends and a new VectorStoreAgent is constructed and
\* initialized in the same directory (initialize, lines 22-39).  before
\* remembers the agent that ended and whether its files were up to date.
vs_restart ==
    /\ store' = [_load_store(NewAgent(store.disk)) EXCEPT
                   !.before = [index |-> store.index,
                               document_store |-> store.document_store,
                               saved |-> /\ store.disk.files
                                         /\ store.disk.index = store.index
                                         /\ store.disk.documents =
                                                store.document_store]]
    /\ UNCHANGED <<orchestrator_vars, agent_io, http, launcher>>

VsNext == vs_index \/ vs_search \/ vs_restart

VsSpec == VsInit /\ [][VsNext]_vars

----------------------------------------------------------------------------
(* The HTTP orchestrator (src/orchestrator/orchestrator.py) *)

\* an exception with its class
RaiseOf(class, m) == [raised |-> TRUE, val |-> [exc |-> m, class |-> class]]

\* a value of an Optional[str] field that is not None
Text(t) == [text |-> t]

\* AgentResponse (lines 24-27); None is NoVal
AgentResponse(status, data, error) ==
    [status |-> status, data |-> data, error |-> error]

\* the agent services in the order process_market_query calls them
Services == <<"api", "scraper", "retriever", "analyzer", "language">>

\* What the HTTP request of call_agent_service can meet: a 2xx response
\* whose body is an AgentResponse with status success or error, a transport
\* error, a response with a non-2xx status, a 2xx response whose body is
\* not a valid AgentResponse.
HttpOutcomes ==
    {"ok", "agent_error", "transport_error", "bad_status", "invalid_body"}

\* the data of a successful AgentResponse of each service
OkData(service) ==
    CASE service = "transcribe" -> [text |-> "transcript"]
      [] service = "api" -> [quotes |-> "quotes"]
      [] service = "scraper" -> [news |-> "news"]
      [] service = "retriever" -> [documents |-> "docs"]
      [] service = "analyzer" -> [analysis |-> "analysis"]
      [] service = "language" ->
            [narrative |-> "narrative text", confidence |-> 85,
             sources |-> <<"TSM">>]
      [] service = "synthesize" -> [audio |-> <<"pcm">>]

\* lines 33-35: the request, raise_for_status, AgentResponse(**json)
http_post(service, outcome) ==
    CASE outcome = "ok" -> Ret(AgentResponse("success", OkData(service), NoVal))
      [] outcome = "agent_error" -> Ret(AgentResponse("error", NoVal, Text("agent failed")))
      [] outcome = "transport_error" -> RaiseOf("httpx.HTTPError", "connection refused")
      [] outcome = "bad_status" -> RaiseOf("httpx.HTTPError", "500 Internal Server Error")
      [] outcome = "invalid_body" ->
            RaiseOf("pydantic.ValidationError", "validation error for AgentResponse")

\* call_agent_service (lines 29-37): except httpx.HTTPError only
call_agent_service(service, outcome) ==
    LET r == http_post(service, outcome) IN
    IF r.raised /\ r.val.class = "httpx.HTTPError"
    THEN Ret(AgentResponse("error", NoVal, Text(r.val.exc)))
    ELSE r

\* d[key] on the data of an AgentResponse
Subscript(d, key) ==
    IF d = NoVal THEN RaiseOf("TypeError", "'NoneType' object is not subscriptable")
    ELSE IF key \notin DOMAIN d THEN RaiseOf("KeyError", "'" \o key \o "'")
    ELSE Ret(d[key])

\* the requests posted to /query
HttpRequests ==
    {[query |-> "q", mode |-> "text", context |-> NoVal],
     [query |-> "q", mode |-> "voice", context |-> NoVal],
     [query |-> "q", mode |-> "voice", context |-> [audio_data |-> "audio"]]}

HttpIdle ==
    [pc |-> "idle", request |-> NoVal, query |-> NoVal, responses |-> EmptyDict,
     calls |-> <<>>, out |-> NoVal]

\* lines 119-120: except Exception as e: raise HTTPException(500, str(e))
handle_query_except(e) ==
    RaiseOf("HTTPException", [status_code |-> 500, detail |-> e.exc])

\* raise HTTPException(status_code=400, ...) at line 102; str() of it is
\* its detail here
transcription_failed ==
    RaiseOf("HTTPException", "Voice transcription failed")

\* every service sent the query alone
market_payload_query_only(service, query, responses) == [query |-> query]

\* the payloads of the five calls (lines 45, 51, 57-60, 66-70, 76)
market_payload(service, query, responses) ==
    CASE service \in {"api", "scraper"} -> [query |-> query]
      [] service = "retriever" ->
            [query |-> query,
             context |-> [market_data |-> responses["api"].data,
                          news_data |-> responses["scraper"].data]]
      [] service = "analyzer" ->
            [data |-> [market |-> responses["api"].data,
                       news |-> responses["scraper"].data,
                       context |-> responses["retriever"].data]]
      [] service = "language" -> [analysis |-> responses["analyzer"].data]

\* lines 79-88: the QueryResponse
query_response(responses) ==
    LET message == Subscript(responses["language"].data, "narrative") IN
    IF message.raised THEN message
    ELSE Ret([message |-> message.val,
              data |-> [market_data |-> responses["api"].data,
                        news_data |-> responses["scraper"].data,
                        analysis |-> responses["analyzer"].data],
              confidence |-> Get(responses["language"].data, "confidence", 0),
              source |-> Get(responses["language"].data, "sources", EmptyList)])

\* the record of one call: what was sent, what the request met and what
\* call_agent_service gave back
HttpLog(service, payload, outcome, reply) ==
    <<[ev |-> "issue", call |-> service, payload |-> payload],
      [ev |-> "settle", call |-> service, outcome |-> outcome,
       reply |-> reply]>>

\* the request leaves through the except clause of handle_query
HttpFail(h, e) == [h EXCEPT !.pc = "done", !.out = handle_query_except(e)]

\* POST /query arrives (lines 93-95, 105-106)
hq_receive ==
    /\ http.pc = "idle"
    /\ \E request \in HttpRequests :
        LET h == [HttpIdle EXCEPT !.request = request] IN
        http' = IF request.mode = "voice"
                THEN IF request.context = NoVal
                     THEN HttpFail(h, [exc |-> "'NoneType' object has no attribute 'get'"])
                     ELSE [h EXCEPT !.pc = "transcribe"]
                ELSE [h EXCEPT !.pc = "api", !.query = request.query]
    /\ UNCHANGED <<orchestrator_vars, agent_io, store, launcher>>

\* lines 96-104
hq_transcribe ==
    /\ http.pc = "transcribe"
    /\ \E outcome \in HttpOutcomes :
        LET payload == [audio_data |-> http.request.context.audio_data]
            r == call_agent_service("transcribe", outcome)
            h == [http EXCEPT !.calls = @ \o HttpLog("transcribe", payload, outcome, r)]
            text == IF r.raised THEN r
                    ELSE IF r.val.status = "error" THEN transcription_failed
                    ELSE Subscript(r.val.data, "text")
        IN  http' = IF text.raised THEN HttpFail(h, text.val)
                    ELSE [h EXCEPT !.pc = "api", !.query = text.val]
    /\ UNCHANGED <<orchestrator_vars, agent_io, store, launcher>>

\* the position after the call to Services[n]
AfterService(n) == IF n < Len(Services) THEN Services[n + 1] ELSE "respond"

\* one call of process_market_query (lines 42-77)
pm_call ==
    /\ \E n \in DOMAIN Services :
        /\ http.pc = Services[n]
        /\ \E outcome \in HttpOutcomes :
            LET service == Services[n]
                payload == market_payload(service, http.query, http.responses)
                r == call_agent_service(service, outcome)
                h == [http EXCEPT !.calls = @ \o HttpLog(service, payload, outcome, r)]
            IN  http' = IF r.raised THEN HttpFail(h, r.val)
                        ELSE [h EXCEPT !.pc = AfterService(n),
                                       !.responses = Bind(@, service, r.val)]
    /\ UNCHANGED <<orchestrator_vars, agent_io, store, launcher>>

\* lines 79-88 and 108-117
hq_respond ==
    /\ http.pc = "respond"
    /\ LET response == query_response(http.responses) IN
       http' = IF response.raised THEN HttpFail(http, response.val)
               ELSE IF http.request.mode = "voice"
               THEN [http EXCEPT !.pc = "synthesize", !.out = response]
               ELSE [http EXCEPT !.pc = "done", !.out = response]
    /\ UNCHANGED <<orchestrator_vars, agent_io, store, launcher>>

\* lines 110-115: the reply of the synthesis is not looked at
hq_synthesize ==
    /\ http.pc = "synthesize"
    /\ \E outcome \in HttpOutcomes :
        LET payload == [text |-> http.out.val.message]
            r == call_agent_service("synthesize", outcome)
            h == [http EXCEPT !.calls = @ \o HttpLog("synthesize", payload, outcome, r)]
        IN  http' = IF r.raised THEN HttpFail(h, r.val)
                    ELSE [h EXCEPT !.pc = "done"]
    /\ UNCHANGED <<orchestrator_vars, agent_io, store, launcher>>

\* the HTTP response is sent; the next request may arrive
hq_done ==
    /\ http.pc = "done"
    /\ http' = HttpIdle
    /\ UNCHANGED <<orchestrator_vars, agent_io, store, launcher>>

HttpInit ==
    /\ Constructed
    /\ http = HttpIdle
    /\ Unused(agent_io) /\ Unused(store) /\ Unused(launcher)

HttpNext ==
    \/ hq_receive
    \/ hq_transcribe
    \/ pm_call
    \/ hq_respond
    \/ hq_synthesize
    \/ hq_done

HttpSpec == HttpInit /\ [][HttpNext]_vars

----------------------------------------------------------------------------
(* The launcher (src/run.py) *)

MaxPolls == 4

\* A child process: not started yet, Popen failed (run_* returned None),
\* running, exited on its own, or sent SIGTERM by terminate().
ChildStates == {"unstarted", "failed", "running", "exited", "terminated"}

\* Popen.terminate(): nothing is sent to a child that has exited
terminate(child) == IF child = "running" THEN "terminated" ELSE child

\* Popen.poll() is not None
has_exited(child) == child \in {"exited", "terminated"}

\* the Streamlit child failed to start and main returns as it is
streamlit_not_started_leave(l) ==
    [l EXCEPT !.streamlit = "failed", !.pc = "ended",
              !.cause = "streamlit_failed"]

\* lines 85-88: if not streamlit_process: fastapi_process.terminate(); return
streamlit_not_started(l) ==
    [l EXCEPT !.streamlit = "failed", !.fastapi = terminate(@),
              !.pc = "ended", !.cause = "streamlit_failed"]

LauncherStart ==
    [pc |-> "start_fastapi", fastapi |-> "unstarted", streamlit |-> "unstarted",
     handlers |-> FALSE, polls |-> 0, cause |-> "none", raised |-> FALSE]

LauncherInit ==
    /\ Constructed
    /\ launcher = LauncherStart
    /\ Unused(agent_io) /\ Unused(store) /\ Unused(http)

\* lines 74-78
l_start_fastapi ==
    /\ launcher.pc = "start_fastapi"
    /\ \E started \in BOOLEAN :
        launcher' = IF started
                    THEN [launcher EXCEPT !.fastapi = "running", !.pc = "sleep"]
                    ELSE [launcher EXCEPT !.fastapi = "failed", !.pc = "ended",
                                          !.cause = "fastapi_failed"]
    /\ UNCHANGED <<orchestrator_vars, agent_io, store, http>>

\* line 81: time.sleep(2)
l_sleep ==
    /\ launcher.pc = "sleep"
    /\ launcher' = [launcher EXCEPT !.pc = "start_streamlit"]
    /\ UNCHANGED <<orchestrator_vars, agent_io, store, http>>

\* lines 84-88
l_start_streamlit ==
    /\ launcher.pc = "start_streamlit"
    /\ \E started \in BOOLEAN :
        launcher' = IF started
                    THEN [launcher EXCEPT !.streamlit = "running",
                                          !.pc = "register"]
                    ELSE streamlit_not_started(launcher)
    /\ UNCHANGED <<orchestrator_vars, agent_io, store, http>>

\* lines 98-99: signal.signal(SIGINT, ...), signal.signal(SIGTERM, ...)
l_register ==
    /\ launcher.pc = "register"
    /\ launcher' = [launcher EXCEPT !.handlers = TRUE, !.pc = "poll_fastapi"]
    /\ UNCHANGED <<orchestrator_vars, agent_io, store, http>>

\* lines 103-106
l_poll_fastapi ==
    /\ launcher.pc = "poll_fastapi"
    /\ launcher' = IF has_exited(launcher.fastapi)
                   THEN [launcher EXCEPT !.streamlit = terminate(@),
                                         !.pc = "ended",
                                         !.cause = "fastapi_exited"]
                   ELSE [launcher EXCEPT !.pc = "poll_streamlit"]
    /\ UNCHANGED <<orchestrator_vars, agent_io, store, http>>

\* lines 108-111
l_poll_streamlit ==
    /\ launcher.pc = "poll_streamlit"
    /\ launcher' = IF has_exited(launcher.streamlit)
                   THEN [launcher EXCEPT !.fastapi = terminate(@),
                                         !.pc = "ended",
                                         !.cause = "streamlit_exited"]
                   ELSE [launcher EXCEPT !.pc = "loop_sleep"]
    /\ UNCHANGED <<orchestrator_vars, agent_io, store, http>>

\* line 113: time.sleep(1)
l_loop_sleep ==
    /\ launcher.pc = "loop_sleep"
    /\ launcher.polls < MaxPolls
    /\ launcher' = [launcher EXCEPT !.pc = "poll_fastapi", !.polls = @ + 1]
    /\ UNCHANGED <<orchestrator_vars, agent_io, store, http>>

\* a server stops on its own while main() runs
child_exits ==
    /\ launcher.pc # "ended"
    /\ \/ /\ launcher.fastapi = "running"
          /\ launcher' = [launcher EXCEPT !.fastapi = "exited"]
       \/ /\ launcher.streamlit = "running"
          /\ launcher' = [launcher EXCEPT !.streamlit = "exited"]
    /\ UNCHANGED <<orchestrator_vars, agent_io, store, http>>

\* Ctrl-C before the handlers are registered (lines 115-120).  While
\* streamlit_process is not bound yet, the test of line 119 raises
\* UnboundLocalError after fastapi_process was terminated.
l_keyboard_interrupt ==
    /\ launcher.pc \in {"sleep", "start_streamlit", "register"}
    /\ launcher' = [launcher EXCEPT !.fastapi = terminate(@),
                                    !.streamlit = terminate(@),
                                    !.pc = "ended", !.cause = "interrupt",
                                    !.raised = (launcher.pc # "register")]
    /\ UNCHANGED <<orchestrator_vars, agent_io, store, http>>

\* SIGINT or SIGTERM once the handlers are registered (lines 90-95)
l_signal ==
    /\ launcher.pc \in {"poll_fastapi", "poll_streamlit", "loop_sleep"}
    /\ launcher.handlers
    /\ launcher' = [launcher EXCEPT !.fastapi = terminate(@),
                                    !.streamlit = terminate(@),
                                    !.pc = "ended", !.cause = "signal"]
    /\ UNCHANGED <<orchestrator_vars, agent_io, store, http>>

LauncherNext ==
    \/ l_start_fastapi
    \/ l_sleep
    \/ l_start_streamlit
    \/ l_register
    \/ l_poll_fastapi
    \/ l_poll_streamlit
    \/ l_loop_sleep
    \/ child_exits
    \/ l_keyboard_interrupt
    \/ l_signal

LauncherSpec == LauncherInit /\ [][LauncherNext]_vars

----------------------------------------------------------------------------
(* Reading the call record of the request in flight *)

Issued(c) == \E i \in DOMAIN calls : calls[i].ev = "issue" /\ calls[i].call = c

Settled(c) == \E i \in DOMAIN calls : calls[i].ev = "settle" /\ calls[i].call = c

Reply(c) ==
    calls[CHOOSE i \in DOMAIN calls : calls[i].ev = "settle" /\ calls[i].call = c].reply

Raised(c) == Settled(c) /\ Reply(c).raised

ErrorResult(c) ==
    Settled(c) /\ ~Reply(c).raised /\ "error" \in DOMAIN Reply(c).val

Failed(c) == Raised(c) \/ ErrorResult(c)

Succeeded(c) == Settled(c) /\ ~Failed(c)

\* process_query has finished and the caller is about to receive result
Done == pc = "done"

\* a process_query call is in flight
InQuery == pc \notin {"idle", "cleanup"}

\* the request passed the readiness test
Admitted == InQuery /\ frame # EmptyDict

EnvelopeKeys == {"content", "confidence", "sources", "timestamp"}

----------------------------------------------------------------------------
(* Claims *)

\* C1: process_query never raises to its caller: whatever the request and
\* the agents' outcomes it returns a mapping, and a request that was aborted
\* (not initialized, transcription failed, synthesis failed) returns an
\* envelope with an error field.
C1_ProcessQueryNeverRaises ==
    Done =>
        /\ ~result.raised
        /\ (~Issued("narrator") \/ Failed("tts")) => "error" \in DOMAIN result.val

C1_Witness ==
    /\ Done
    /\ Raised("quotes")
    /\ Failed("tts")
    /\ ~result.raised
    /\ "error" \in DOMAIN result.val

\* C2: degraded mode: on an initialized orchestrator with text input and
\* text output, whichever of the quotes, earnings, news, retrieval and
\* analysis calls fail, unless the narrator call fails the envelope has
\* content, confidence, sources and timestamp.
C2_DegradedMode ==
    (/\ Done
     /\ Admitted
     /\ frame.input_type = "text"
     /\ frame.response_type = "text"
     /\ ~Failed("narrator"))
    => /\ ~result.raised
       /\ EnvelopeKeys \subseteq DOMAIN result.val

C2_Witness ==
    /\ Done
    /\ frame # EmptyDict
    /\ frame.input_type = "text"
    /\ frame.response_type = "text"
    /\ Succeeded("quotes")
    /\ Raised("earnings")
    /\ ErrorResult("news")
    /\ ErrorResult("search")
    /\ Succeeded("narrator")
    /\ EnvelopeKeys \subseteq DOMAIN result.val

\* C3: a process_query call made while agents_initialized is false returns
\* the error envelope "Agents not initialized" and issues no agent call.
C3_NotInitializedFailsFast ==
    (InQuery /\ ~agents_initialized)
    => /\ Done
       /\ calls = <<>>
       /\ ~result.raised
       /\ result.val = [error |-> "Agents not initialized"]

C3_Witness ==
    /\ Done
    /\ ~agents_initialized
    /\ query_data # EmptyDict
    /\ query_data.input_type = "voice"
    /\ "error" \in DOMAIN result.val

\* C4: on a freshly constructed orchestrator initialize() returns true
\* exactly when every agent's initialize() returns true; when one returns
\* false or raises, initialize() returns false without raising and
\* agents_initialized is false afterwards.
C4_InitializeIsAnd ==
    (last.op = "initialize" /\ last.fresh)
    => /\ ~last.ret.raised
       /\ last.ret.val = (\A a \in Agents : last.outs[a] = "true")
       /\ (\E a \in Agents : last.outs[a] # "true")
            => (last.ret.val = FALSE /\ agents_initialized = FALSE)

C4_Witness ==
    /\ last.op = "initialize"
    /\ last.fresh
    /\ last.outs["market_data_agent"] = "raise"
    /\ last.outs["web_scraper"] = "true"
    /\ last.ret.val = FALSE
    /\ ~agents_initialized

\* C5: agents_initialized, once true, stays true under any sequence of
\* initialize(), process_query() and cleanup() calls.
C5_ReadinessStaysSet == [][agents_initialized => agents_initialized']_vars

\* C6: when input_type is voice and speech-to-text returns an error,
\* process_query returns an error envelope and no market-data, scraper,
\* retriever, analyzer, narrator or text-to-speech call is issued.
C6_TranscriptionFailFast ==
    (InQuery /\ ErrorResult("stt"))
    => /\ Done
       /\ ~result.raised
       /\ "error" \in DOMAIN result.val
       /\ \A c \in AgentCalls \ {"stt"} : ~Issued(c)

C6_Witness ==
    /\ Done
    /\ frame # EmptyDict
    /\ frame.input_type = "voice"
    /\ query_data.audio_data = Audio
    /\ ErrorResult("stt")
    /\ result.val = [error |-> "Speech-to-text error: failed: stt"]

\* C7: when response_type is voice and text-to-speech returns an error,
\* process_query returns an envelope with an error field and without
\* audio_data and sample_rate, although the narrative stage produced content.
C7_SynthesisFailureIsFatal ==
    (Done /\ ErrorResult("tts"))
    => /\ ~result.raised
       /\ "error" \in DOMAIN result.val
       /\ "audio_data" \notin DOMAIN result.val
       /\ "sample_rate" \notin DOMAIN result.val

C7_Witness ==
    /\ Done
    /\ frame # EmptyDict
    /\ frame.response_type = "voice"
    /\ Succeeded("narrator")
    /\ frame.response.content = "brief text"
    /\ ErrorResult("tts")
    /\ DOMAIN result.val = {"error"}

\* C8: whenever the narrator call fails, by raising or by returning an
\* error result, _generate_response returns an envelope whose content is
\* the fixed apology text and whose error field carries the reason.
C8_NarratorFailureApology ==
    Failed("narrator")
    => /\ "response" \in DOMAIN frame
       /\ frame.response.content = Apology
       /\ "error" \in DOMAIN frame.response

\* C9: the gatherer never raises and always yields all four keys:
\* _gather_market_data returns market_data and earnings_data,
\* _gather_context returns news and relevant_docs, whatever the calls do.
C9_GathererAllKeys ==
    /\ (Admitted /\ "market_data" \in DOMAIN frame)
         => {"market_data", "earnings_data"} \subseteq DOMAIN frame.market_data
    /\ (Admitted /\ "context_data" \in DOMAIN frame)
         => {"news", "relevant_docs"} \subseteq DOMAIN frame.context_data
    /\ (Done /\ Admitted /\ Issued("quotes")) => Issued("narrator")

\* C10: in the gather stage a failing call replaces only its own key: when
\* quotes fails earnings is still issued and its data kept (and vice
\* versa), when news fails retrieval is still issued and its results kept
\* (and vice versa).
C10_GatherFailureIsLocal ==
    /\ (Admitted /\ "market_data" \in DOMAIN frame)
         => /\ Issued("quotes") /\ Issued("earnings")
            /\ Succeeded("earnings")
                 => /\ "earnings_data" \in DOMAIN frame.market_data
                    /\ frame.market_data.earnings_data = Reply("earnings").val.earnings
            /\ Succeeded("quotes")
                 => /\ "market_data" \in DOMAIN frame.market_data
                    /\ frame.market_data.market_data = Reply("quotes").val.data
    /\ (Admitted /\ "context_data" \in DOMAIN frame)
         => /\ Issued("news") /\ Issued("search")
            /\ Succeeded("search")
                 => /\ "relevant_docs" \in DOMAIN frame.context_data
                    /\ frame.context_data.relevant_docs = Reply("search").val.results
            /\ Succeeded("news")
                 => /\ "news" \in DOMAIN frame.context_data
                    /\ frame.context_data.news = Reply("news").val.articles


\* C11: _analyze_data always returns a mapping with the keys sentiment,
\* risk and earnings, each holding that analysis call's result or its error
\* marker; a failing analysis call neither keeps the other two from being
\* issued nor removes their results.
C11_AnalysisKeepsAllThree ==
    (Admitted /\ "analysis_result" \in DOMAIN frame)
    => /\ DOMAIN frame.analysis_result = {"sentiment", "risk", "earnings"}
       /\ Issued("sentiment") /\ Issued("risk") /\ Issued("earnings_analysis")
       /\ frame.analysis_result.sentiment = Reply("sentiment").val
       /\ frame.analysis_result.risk = Reply("risk").val
       /\ frame.analysis_result.earnings = Reply("earnings_analysis").val

C11_Witness ==
    /\ Admitted
    /\ "analysis_result" \in DOMAIN frame
    /\ Succeeded("sentiment")
    /\ ErrorResult("risk")
    /\ ErrorResult("earnings_analysis")
    /\ "error" \in DOMAIN frame.analysis_result.risk
    /\ "error" \in DOMAIN frame.analysis_result.earnings
    /\ "sentiment" \in DOMAIN frame.analysis_result.sentiment

\* C12: on an initialized orchestrator only transcription and synthesis end
\* a request early: whatever the gather, analysis and narrator calls do, a
\* request whose transcription did not fail goes through gathering,
\* analysis and narration, then through synthesis when the response is
\* voice, and unless synthesis fails it returns the narrative envelope.
C12_OnlyVoiceIsFatal ==
    (Done /\ Admitted /\ ~Failed("stt"))
    => /\ Issued("quotes")
       /\ Issued("news")
       /\ Issued("sentiment")
       /\ Issued("narrator")
       /\ frame.response_type = "voice" => Issued("tts")
       /\ ~Failed("tts") => (~result.raised /\ "content" \in DOMAIN result.val)

C12_Witness ==
    /\ Done
    /\ Admitted
    /\ Raised("quotes")
    /\ ErrorResult("news")
    /\ ErrorResult("search")
    /\ Raised("narrator")
    /\ frame.response_type = "voice"
    /\ Succeeded("tts")
    /\ result.val.content = Apology


GatherCalls == {"quotes", "earnings", "news", "search"}

AnalysisCalls == {"sentiment", "risk", "earnings_analysis"}

IssuedAt(c, i) == calls[i].ev = "issue" /\ calls[i].call = c

SettledAt(c, i) == calls[i].ev = "settle" /\ calls[i].call = c

\* no call of later is issued while a call of earlier is unsettled or still
\* to be issued
Barrier(earlier, later) ==
    \A i \in DOMAIN calls : \A c \in later :
        IssuedAt(c, i) =>
            \A d \in earlier : \A j \in DOMAIN calls :
                IssuedAt(d, j) =>
                    /\ j < i
                    /\ \E k \in (j + 1)..(i - 1) : SettledAt(d, k)

\* every call of group is issued before any call of group settles
IssuedTogether(group) ==
    \A i \in DOMAIN calls : \A c \in group :
        SettledAt(c, i) =>
            \A d \in group : \E j \in 1..(i - 1) : IssuedAt(d, j)

C14_SiblingsIssuedTogether ==
    /\ IssuedTogether(GatherCalls)
    /\ IssuedTogether(AnalysisCalls)


PayloadAt(c) == calls[CHOOSE i \in DOMAIN calls : IssuedAt(c, i)].payload

\* the query text the retrieval search and the narrator context were given
DownstreamQueryIs(q) ==
    /\ Issued("search") => PayloadAt("search").query = q
    /\ Issued("narrator") => PayloadAt("narrator").context.query = q

\* C15: the query used by the retrieval search and the narrator context is
\* the text returned by speech-to-text when input_type is voice and
\* speech-to-text succeeds, and is the request's own query field, with no
\* speech-to-text call issued, when input_type is text.
C15_DownstreamQuery ==
    /\ (Admitted /\ frame.input_type = "voice" /\ Succeeded("stt"))
         => DownstreamQueryIs(Reply("stt").val.text)
    /\ (Admitted /\ frame.input_type = "text")
         => /\ ~Issued("stt")
            /\ DownstreamQueryIs(Get(query_data, "query", ""))

C15_Witness ==
    /\ Done
    /\ Admitted
    /\ frame.input_type = "voice"
    /\ query_data.query = "q"
    /\ Succeeded("stt")
    /\ Issued("search")
    /\ Issued("narrator")
    /\ PayloadAt("search").query = "transcript"
    /\ PayloadAt("narrator").context.query = "transcript"


\* the narrative text in a narrator reply
NarrativeText(reply) ==
    IF "narrative" \in DOMAIN reply THEN reply.narrative ELSE reply.brief

\* C16: when the narrator call succeeds, _generate_response returns an
\* envelope with exactly content, confidence, sources and timestamp, where
\* content is the narrative text the narrator returned, confidence is the
\* narrator's confidence or 0 when absent, and sources is the narrator's
\* sources or the empty sequence when absent.
C16_NarrativeEnvelope ==
    (Admitted /\ Succeeded("narrator") /\ ~Issued("tts"))
    => /\ "response" \in DOMAIN frame
       /\ DOMAIN frame.response = EnvelopeKeys
       /\ frame.response.content = NarrativeText(Reply("narrator").val)
       /\ frame.response.confidence = Get(Reply("narrator").val, "confidence", 0)
       /\ frame.response.sources = Get(Reply("narrator").val, "sources", EmptyList)


AudioKeys == {"audio_data", "sample_rate"}

\* the step of process_query in which text-to-speech settles successfully
C17_VoiceStep ==
    (pc = "tts" /\ pc' = "done" /\ Succeeded("tts")')
    => /\ ~result'.raised
       /\ DOMAIN result'.val = DOMAIN frame.response \cup AudioKeys
       /\ \A k \in DOMAIN frame.response : result'.val[k] = frame.response[k]
       /\ \A k \in AudioKeys : result'.val[k] = Reply("tts")'.val[k]

C17_TextStaysText ==
    (Admitted /\ frame.response_type = "text")
    => /\ ~Issued("tts")
       /\ Done => DOMAIN result.val \cap AudioKeys = {}

\* C17: when response_type is voice and text-to-speech succeeds, the
\* returned envelope is the narrative envelope, every field of it unchanged,
\* plus audio_data and sample_rate equal to the text-to-speech result and
\* nothing else; when response_type is text no text-to-speech call is issued
\* and the envelope carries no audio_data or sample_rate.
C17_VoiceEnvelope == [][C17_VoiceStep]_vars /\ []C17_TextStaysText

C17_Witness ==
    /\ Done /\ Admitted /\ frame.response_type = "voice"
    /\ Succeeded("narrator") /\ Succeeded("tts")
    /\ ~result.raised
    /\ result.val.content = "brief text"
    /\ result.val.audio_data = Reply("tts").val.audio_data
    /\ result.val.sample_rate = Reply("tts").val.sample_rate
    /\ "error" \notin DOMAIN result.val


\* C18: for a request whose input_type is neither text nor voice and whose
\* query is empty, process_query on an initialized orchestrator returns an
\* envelope that carries an error field.
C18_InvalidInputIsAnError ==
    (/\ Done /\ Admitted
     /\ Get(query_data, "input_type", "text") \notin {"text", "voice"}
     /\ Get(query_data, "query", "") = "")
    => /\ ~result.raised
       /\ "error" \in DOMAIN result.val


\* C19: cleanup() never raises: whatever the six teardowns do, return or
\* raise, cleanup() completes normally.
C19_CleanupNeverRaises ==
    (pc = "idle" /\ last.op = "cleanup") => ~last.ret.raised

C19_Witness ==
    /\ pc = "idle" /\ last.op = "cleanup"
    /\ last.outs["web_scraper"] = "raise"
    /\ last.outs["market_data_agent"] = "raise"
    /\ last.outs["voice_processor"] = "true"
    /\ ~last.ret.raised

\* C20: cleanup() returns only after the teardown of every one of the six
\* agents has been invoked and has settled, returned or raised, including
\* when one or more teardowns raise.
C20_CleanupWaitsForAll ==
    (pc = "idle" /\ last.op = "cleanup")
    => \A a \in Agents : last.outs[a] \in {"true", "raise"}


\* C21: if an agent call issued by process_query never responds, that call
\* is treated as a failure of its branch after a bounded wait and
\* process_query still eventually returns an envelope.
C21_EventuallyReturns == InQuery ~> Done


\* C23: process_query never writes the readiness flag: no step of a
\* process_query call, from the call to the return, on any path, changes
\* agents_initialized.
C23_QueryLeavesReadiness ==
    [][(InQuery \/ InQuery') => agents_initialized' = agents_initialized]_vars

C23_Witness ==
    /\ pc = "idle" /\ last.op = "process_query"
    /\ agents_initialized
    /\ ~last.ret.raised
    /\ last.ret.val = [error |-> "Speech-to-text error: failed: stt"]


\* the reply to call c in a call record
ReplyIn(log, c) ==
    IF \E i \in DOMAIN log : log[i].ev = "settle" /\ log[i].call = c
    THEN log[CHOOSE i \in DOMAIN log :
                log[i].ev = "settle" /\ log[i].call = c].reply
    ELSE Raise("no reply: " \o c)

\* what lines 62-71 make of the transcription reply
SttOutcome(r) == IF r.raised THEN r ELSE stt_text(r.val)

\* what _generate_response makes of the narrator's reply
NarrativeOutcome(r) ==
    IF r.raised THEN _generate_response_except(r.val.exc)
                ELSE _generate_response_return(r.val)

\* what lines 86-96 make of the narrative envelope and the synthesis reply
VoiceOutcome(envelope, r) == IF r.raised THEN r ELSE attach_voice(envelope, r.val)

\* The envelope of a request run alone: a function of the request's fields
\* and of the replies to its own calls.
Alone(qd, log) ==
    IF Get(qd, "input_type", "text") = "voice"
       /\ SttOutcome(ReplyIn(log, "stt")).raised
    THEN process_query_except(SttOutcome(ReplyIn(log, "stt")).val.exc)
    ELSE LET narrative == NarrativeOutcome(ReplyIn(log, "narrator")) IN
         IF Get(qd, "response_type", "text") # "voice"
         THEN narrative
         ELSE LET voiced == VoiceOutcome(narrative.val, ReplyIn(log, "tts")) IN
              IF voiced.raised THEN process_query_except(voiced.val.exc)
                               ELSE voiced

\* the request that is running returns what it returns alone
C22_AloneReference == (Done /\ Admitted) => result = Alone(query_data, calls)

\* C22: for any interleaving of two process_query executions on the same
\* initialized orchestrator, each returned envelope equals the envelope the
\* request returns when run alone with the same agent results: it depends
\* only on the request's own fields and on the replies to its own calls.
C22_RequestsAreIndependent ==
    /\ C22_AloneReference
    /\ (parked.pc = "done" /\ parked.frame # EmptyDict)
       => parked.result = Alone(parked.query_data, parked.calls)

\* both requests have finished, interleaved, with different envelopes
C22_Witness ==
    /\ Done /\ Admitted
    /\ parked.pc = "done" /\ parked.frame # EmptyDict
    /\ query_data # parked.query_data
    /\ "audio_data" \in DOMAIN result.val
    /\ Get(parked.result.val, "content", "") = "Unable to generate response"
    /\ \E i \in DOMAIN calls : calls[i].call = "narrator"


\* the selected helper ran into a failure, or nothing was selected
ProcessFailed ==
    \/ ~agent_io.input_data.is_mapping
    \/ Get(agent_io.input_data.data, "selector", "None")
           \notin Supported(agent_io.agent)
    \/ agent_io.fault # "none"

\* C24: process() of VoiceProcessor, WebScraper, VectorStoreAgent and
\* FinancialAnalyzer is total and reports failure as a value: for every
\* input it returns a mapping and never raises, and on an internal failure
\* or an unsupported operation, scrape type or analysis type the mapping
\* returned contains an error key with the reason.
C24_ProcessIsTotal ==
    (agent_io # NoVal /\ agent_io.out # NoVal)
    => /\ ~agent_io.out.raised
       /\ ProcessFailed => "error" \in DOMAIN agent_io.out.val

C24_Witness ==
    /\ agent_io # NoVal /\ agent_io.out # NoVal
    /\ agent_io.agent = "financial_analyzer"
    /\ agent_io.input_data.is_mapping
    /\ Get(agent_io.input_data.data, "selector", "None") = "bogus"
    /\ agent_io.out = Ret([error |-> "Unsupported analysis_type: bogus"])


\* the last call on the vector store was a search with a query
Searched == store # NoVal /\ store.req # NoVal /\ store.req.operation = "search"
            /\ store.req.query # ""

Min(a, b) == IF a < b THEN a ELSE b

\* the documents held by an agent, as a search reports them
Reported(st) ==
    {[text |-> d.text, metadata |-> d.metadata, timestamp |-> d.timestamp] :
        d \in {st.document_store[key] : key \in DOMAIN st.document_store}}

\* C25: a VectorStoreAgent search with a non-empty query and parameter k
\* returns a results sequence of min(k, N) entries when N documents are
\* indexed, each entry one of the indexed documents; with fewer than k
\* documents indexed the absent neighbour slots are skipped and the indexed
\* documents are returned rather than an error.
C25_SearchReturnsNearest ==
    (Searched /\ ~store.reloaded)
    => /\ "error" \notin DOMAIN store.out
       /\ "results" \in DOMAIN store.out
       /\ Len(store.out.results) = Min(store.req.k, Len(store.index))
       /\ \A n \in DOMAIN store.out.results :
            [text |-> store.out.results[n].text,
             metadata |-> store.out.results[n].metadata,
             timestamp |-> store.out.results[n].timestamp] \in Reported(store)

\* C26: documents indexed in one VectorStoreAgent, saved by _save_store and
\* loaded by initialize() in a new VectorStoreAgent are returned by search
\* exactly as before the save, and documents indexed after the reload get
\* ids that do not collide with the reloaded ones.
C26_RoundTrip ==
    /\ (/\ Searched /\ store.reloaded /\ store.before.saved
        /\ store.index = store.before.index
        /\ store.req.k <= Len(store.index))
       => store.out = _search_documents(store.before, store.req.query, store.req.k)
    /\ (store # NoVal /\ store.reloaded)
       => /\ Cardinality(DOMAIN store.document_store) = Len(store.index)
          /\ \A j, k \in DOMAIN store.document_store : j.v = k.v => j = k


HttpIssuedAt(c, i) == http.calls[i].ev = "issue" /\ http.calls[i].call = c

HttpSettledAt(c, i) == http.calls[i].ev = "settle" /\ http.calls[i].call = c

HttpIssued(c) == \E i \in DOMAIN http.calls : HttpIssuedAt(c, i)

HttpReply(c) ==
    http.calls[CHOOSE i \in DOMAIN http.calls : HttpSettledAt(c, i)].reply

HttpPayload(c) ==
    http.calls[CHOOSE i \in DOMAIN http.calls : HttpIssuedAt(c, i)].payload

\* C27: call_agent_service is total: for every outcome of the HTTP request
\* (transport error, non-2xx status, response body that is not a valid
\* AgentResponse) it returns an AgentResponse, with status "error" and the
\* reason on failure, and never raises to its caller.
C27_ClientIsTotal ==
    http # NoVal
    => \A i \in DOMAIN http.calls :
          http.calls[i].ev = "settle"
          => /\ ~http.calls[i].reply.raised
             /\ http.calls[i].reply.val.status \in {"success", "error"}
             /\ http.calls[i].reply.val.status = "error"
                => http.calls[i].reply.val.error # NoVal
             /\ http.calls[i].outcome # "ok"
                => http.calls[i].reply.val.status = "error"


HttpSettled(c) == \E i \in DOMAIN http.calls : HttpSettledAt(c, i)

\* the data field of the AgentResponse that call c returned
HttpData(c) == HttpReply(c).val.data

\* the calls of process_market_query come in the order of Services, none
\* issued before the one before it has settled
C28_InOrder ==
    \A m \in DOMAIN Services : \A i \in DOMAIN http.calls :
        HttpIssuedAt(Services[m], i)
        => /\ \A n \in 1..(m - 1) : \E j \in 1..(i - 1) : HttpSettledAt(Services[n], j)
           /\ \A n \in DOMAIN Services : \A j \in 1..(i - 1) :
                HttpIssuedAt(Services[n], j) => n < m

C28_Payloads ==
    /\ HttpIssued("retriever")
       => Get(HttpPayload("retriever"), "context", NoVal) =
              [market_data |-> HttpData("api"), news_data |-> HttpData("scraper")]
    /\ HttpIssued("analyzer")
       => Get(HttpPayload("analyzer"), "data", NoVal) =
              [market |-> HttpData("api"), news |-> HttpData("scraper"),
               context |-> HttpData("retriever")]
    /\ HttpIssued("language")
       => Get(HttpPayload("language"), "analysis", Text("absent")) = HttpData("analyzer")

\* C28: in process_market_query the five agent calls are issued strictly
\* in the order market data, scraper, retriever, analyzer, language, each
\* only after the previous call has settled; the retriever payload carries
\* the market and scraper data, the analyzer payload the market, scraper
\* and retriever data, the language payload the analyzer data.
C28_SequentialPipeline == http # NoVal => (C28_InOrder /\ C28_Payloads)

C28_Witness ==
    /\ http # NoVal /\ http.pc = "done"
    /\ \A n \in DOMAIN Services : HttpSettled(Services[n])
    /\ HttpData("retriever") = OkData("retriever")
    /\ HttpData("scraper") = NoVal
    /\ HttpPayload("analyzer").data.context = OkData("retriever")
    /\ ~http.out.raised

\* C29: in handle_query with mode voice, when the transcription call
\* returns status "error" the request is rejected with HTTP status 400
\* ("Voice transcription failed") and none of the market, scraper,
\* retriever, analyzer or language agent calls is issued.
C29_TranscriptionRejected ==
    (/\ http # NoVal /\ http.pc = "done"
     /\ HttpSettled("transcribe")
     /\ ~HttpReply("transcribe").raised
     /\ HttpReply("transcribe").val.status = "error")
    => /\ http.out.raised
       /\ http.out.val.exc = [status_code |-> 400,
                              detail |-> "Voice transcription failed"]
       /\ \A n \in DOMAIN Services : ~HttpIssued(Services[n])


\* main() ended because a server failed to start or was seen to have exited
EndedOnFailure ==
    /\ launcher # NoVal /\ launcher.pc = "ended"
    /\ launcher.cause \in {"fastapi_failed", "streamlit_failed",
                           "fastapi_exited", "streamlit_exited"}

\* C30: main() never ends with exactly one server left running because the
\* other failed: if the Streamlit child fails to start the FastAPI child
\* already started is terminated, and whenever the monitor loop observes
\* that either child has exited it terminates the other child and leaves
\* the loop.
C30_NoOrphanServer ==
    EndedOnFailure
    => /\ launcher.fastapi # "running"
       /\ launcher.streamlit # "running"
       /\ launcher.cause = "streamlit_failed" => launcher.fastapi \in {"terminated", "exited"}
       /\ launcher.cause = "fastapi_exited" => launcher.streamlit \in {"terminated", "exited"}
       /\ launcher.cause = "streamlit_exited" => launcher.fastapi \in {"terminated", "exited"}

C30_Witness ==
    /\ launcher # NoVal /\ launcher.pc = "ended"
    /\ launcher.cause = "streamlit_failed"
    /\ launcher.fastapi = "terminated"
    /\ launcher.streamlit = "failed"

====
